---- MODULE Spec2Model ----
(***************************************************************************)
(* MedTrack (src/Medtrack/app.py): signup, login, logout and the two role  *)
(* dashboards of a Flask application, over a user store that is either a   *)
(* DynamoDB table (dynamodb set) or the in-process dict local_db['users']. *)
(*                                                                         *)
(* Python str values are modelled as sequences of tokens (a coarse view of *)
(* a character string): "" is <<>>, a password hash is the sequence        *)
(* method, salt, digest that werkzeug joins with "$".  Python's None is    *)
(* the one-token sequence None, which no sampled text equals.              *)
(*                                                                         *)
(* Requests are handled by concurrent threads.  Every handler reads or     *)
(* writes the shared store at most once, except signup, which checks for   *)
(* the email (lines 128-135) and later writes the record (lines 147-150):  *)
(* signup is therefore two steps, and every other handler is one.          *)
(***************************************************************************)
EXTENDS Naturals, Sequences, FiniteSets, TLC

VARIABLES dynamodb, local_db, table, cookie, resp, pc, nextId, twin, mail

\* twin is no state of the program: it holds the second of two processes
\* when a remote-backed and an in-memory-backed process are run side by
\* side (TwinSpec, at the end), and is NoTwin otherwise.
\* mail is the activation of send_email_notification and the mail relay's
\* connections (MailSpec, at the end); no route calls that function, so
\* under the routes it stays NoMail.
vars == <<dynamodb, local_db, table, cookie, resp, pc, nextId, twin, mail>>

\* ---------------------------------------------------------------- bounds
\* At most MaxUsers identifiers are ever generated (uuid4 calls).
MaxUsers == 2

\* ------------------------------------------------------- sampled inputs
\* Two clients send requests, so that two signups can be in flight at once.
\* The server keeps no session table: a session lives in the cookie of the
\* client that holds it, and no request reads another client's cookie.  One
\* client, the browser, uses every route; the other only posts complete
\* signup forms.
Clients == {"c1", "c2"}
Browsers == {"c1"}
None == << "<None>" >>
Empty == << >>
patient == << "patient" >>
doctor == << "doctor" >>
\* role path values: the two roles and one other value
RolePaths == {patient, doctor, << "admin" >>}
Names == {<< "Alice" >>}
Emails == {<< "a@x.com" >>, << "b@x.com" >>}
Passwords == {<< "secret123" >>, << "hunter2" >>}
Salts == {<< "s1" >>}
\* What request.form.get returns for each field: a text, "" (Empty) or, for
\* a field the request does not carry, None.  A GET carries no form.
NoForm == [name |-> None, email |-> None, password |-> None]
CompleteForms == [name : Names, email : Emails, password : Passwords]
BaseForm == [name |-> << "Alice" >>, email |-> << "a@x.com" >>,
             password |-> << "secret123" >>]
\* a complete form with one field empty or missing
IncompleteForms ==
    {[BaseForm EXCEPT !.name = x] : x \in {Empty, None}}
    \cup {[BaseForm EXCEPT !.email = x] : x \in {Empty, None}}
    \cup {[BaseForm EXCEPT !.password = x] : x \in {Empty, None}}
\* the signup requests sent: method, role path and form
SignupRequests ==
    [method : {"GET"}, role : RolePaths, form : {NoForm}]
    \cup [method : {"POST"}, role : {patient, doctor},
          form : CompleteForms \cup IncompleteForms]
    \cup [method : {"POST"}, role : {<< "admin" >>}, form : {BaseForm}]
\* the signup requests that reach the store
SignupWrites ==
    [method : {"POST"}, role : {patient, doctor}, form : CompleteForms]
\* the login requests sent: a registered or unregistered email or none, a
\* right or wrong password or none
LoginForms == [name : {None}, email : Emails \cup {None}, password : Passwords \cup {None}]
LoginRequests ==
    [method : {"GET"}, role : RolePaths, form : {NoForm}]
    \cup [method : {"POST"}, role : {patient, doctor}, form : LoginForms]
    \cup [method : {"POST"}, role : {<< "admin" >>}, form : {BaseForm}]

\* app.config['PERMANENT_SESSION_LIFETIME'] = timedelta(hours=1): the clock
\* counts hours.
PERMANENT_SESSION_LIFETIME == 1

\* --------------------------------------------------- credential hashing
\* The digest of a password under a salt: a one-way function, injective on
\* the sampled inputs.
Digest(salt, password) == << "H" >> \o salt \o password

\* werkzeug generate_password_hash: "method$salt$digest", the salt drawn at
\* random by the caller of this operator.
generate_password_hash_plain(password, salt) == password
generate_password_hash(password, salt) ==
    << "scrypt" >> \o salt \o Digest(salt, password)

\* werkzeug check_password_hash: False for a hash that does not split into
\* method, salt and digest; otherwise whether the password re-hashes to the
\* stored digest.  (The caller handles password = None, which raises.)
check_password_hash_any(pwhash, password) == TRUE
check_password_hash(pwhash, password) ==
    /\ Len(pwhash) >= 3
    /\ pwhash[1] = "scrypt"
    /\ LET salt == << pwhash[2] >>
       IN  SubSeq(pwhash, 3, Len(pwhash)) = Digest(salt, password)

\* --------------------------------------------------------------- dicts
EmptyDict == [k \in {} |-> 0]

\* d[key] = value for a Python dict d: the value replaces whatever the key
\* held
DictPut_ifabsent(d, key, value) ==
    IF key \in DOMAIN d THEN d
    ELSE [k \in DOMAIN d \cup {key} |-> IF k = key THEN value ELSE d[k]]
DictPut(d, key, value) ==
    [k \in DOMAIN d \cup {key} |-> IF k = key THEN value ELSE d[k]]

\* get_users_table().put_item(Item=item) for a table keyed by email: the
\* item replaces whatever item had its key
put_item_new(t, item) ==
    IF item.email \in DOMAIN t THEN t ELSE DictPut(t, item.email, item)
put_item(t, item) == DictPut(t, item.email, item)

\* ------------------------------------------------------------- session
\* Flask's client-side session: the signed cookie the client holds, as the
\* dict it carries and the age of its signature (the time since the server
\* signed it, which is what the server checks; an age past the lifetime is
\* recorded as lifetime + 1).  Of the dict only the keys login writes are
\* modelled (flash messages are part of the response).
NoCookie == [data |-> EmptyDict, age |-> 0]

\* open_session: the cookie's dict, or an empty session when the signature
\* is older than PERMANENT_SESSION_LIFETIME.
open_session_noexpiry(c) == cookie[c].data
open_session(c) ==
    IF cookie[c].age > PERMANENT_SESSION_LIFETIME
    THEN EmptyDict
    ELSE cookie[c].data

\* save_session at the end of a request: a session the handler emptied
\* deletes the cookie, one that was empty and stays so sends none; a
\* permanent session is signed again on every response
\* (SESSION_REFRESH_EACH_REQUEST is left at its default), any other one
\* only when the handler changed it.
save_session(c, opened, data) ==
    IF data = EmptyDict
    THEN IF opened = EmptyDict THEN cookie[c] ELSE NoCookie
    ELSE IF ("permanent" \in DOMAIN data /\ data.permanent) \/ data # opened
         THEN [data |-> data, age |-> 0]
         ELSE cookie[c]

\* session.get('role')
SessionRole(s) == IF "role" \in DOMAIN s THEN s.role ELSE None

\* ----------------------------------------------------------- responses
\* The last response the server sent: to which client, by which route.
Response(op, status, target, category, flash) ==
    [op |-> op, status |-> status, target |-> target,
     category |-> category, flash |-> flash]

NoResponse == [client |-> "", out |-> Response("none", 0, "", "", "")]

\* redirect(url_for(endpoint)) after flash(message, category)
Redirect(op, endpoint, category, flash) == Response(op, 302, endpoint, category, flash)
\* render_template(template) after an optional flash
Render(op, template, category, flash) == Response(op, 200, template, category, flash)
\* jsonify({'error': message}), status
JsonError(op, status, message) == Response(op, status, "json", "", message)
\* an exception no handler catches: the request ends in a server error
ServerError(op) == Response(op, 500, "", "", "")
\* logger.error(message) during the request that ends in out: the line
\* goes to the application log, not to the client
Logged(out, message) ==
    [op |-> out.op, status |-> out.status, target |-> out.target,
     category |-> out.category, flash |-> out.flash, log |-> message]

\* ---------------------------------------------------------- user store
\* The store the process was configured with.
Users == IF dynamodb THEN table ELSE local_db

\* Whether a call to the store raises is the environment's choice at every
\* call: a call to the DynamoDB table can fail (the table unreachable, the
\* service in error), a read or write of the dict cannot.
StoreOutcomes == IF dynamodb THEN {FALSE, TRUE} ELSE {FALSE}

Idle == [op |-> "idle"]

NoTwin == [phase |-> "off"]

NoMail == [pc |-> "off"]

\* Threads that passed signup's existence check and have not yet written.
Pending == {c \in Clients : pc[c] # Idle}

Init ==
    /\ dynamodb \in BOOLEAN
    /\ local_db = EmptyDict
    /\ table = EmptyDict
    /\ cookie = [c \in Clients |-> NoCookie]
    /\ resp = NoResponse
    /\ pc = [c \in Clients |-> Idle]
    /\ nextId = 1
    /\ twin = NoTwin
    /\ mail = NoMail

\* The end of a request of client c: the response goes out and the session
\* is saved into the client's cookie.
Finish(c, method, out, opened, data) ==
    /\ resp' = [client |-> c, out |-> out]
    /\ cookie' = [cookie EXCEPT ![c] = save_session(c, opened, data)]

\* The end of a request in an exception no handler catches.  Under
\* app.run(debug=True) the exception propagates to the server and no cookie
\* is sent; under a production server Flask's error response still saves
\* the session.
FinishError(c, method, op, opened) ==
    /\ resp' = [client |-> c, out |-> ServerError(op)]
    /\ \E saved \in BOOLEAN :
         cookie' = [cookie EXCEPT ![c] =
                      IF saved THEN save_session(c, opened, opened) ELSE cookie[c]]

\* `not x` for a form field: missing or empty
Falsy_none(x) == x = None
Falsy(x) == x = None \/ x = Empty

\* role not in ('patient', 'doctor') (lines 115 and 159)
InvalidRole_never(role) == FALSE
InvalidRole(role) == role \notin {patient, doctor}

\* url_for('login', role=role)
LoginEndpoint(role) == IF role = patient THEN "login/patient" ELSE "login/doctor"
\* url_for(f"{role}_dashboard")
DashboardEndpoint(role) == IF role = patient THEN "patient_dashboard" ELSE "doctor_dashboard"

\* ---------------------------------------------------------------- signup
\* signup's existence check (lines 128-135), when the store answers
UserExists_never(email) == FALSE
UserExists(email) == email \in DOMAIN Users

\* the record signup builds (lines 137-146); created_at, which no handler
\* reads, is left out
user_data_inactive(user_id, name, email, password, salt, role) ==
    [user_id |-> user_id, name |-> name, email |-> email,
     password_hash |-> generate_password_hash(password, salt),
     role |-> role, is_active |-> FALSE]
user_data(user_id, name, email, password, salt, role) ==
    [user_id |-> user_id, name |-> name, email |-> email,
     password_hash |-> generate_password_hash(password, salt),
     role |-> role, is_active |-> TRUE]

\* signup up to and including the existence check (lines 113-135); raises:
\* get_item raises
SignupRequest(c, method, role, name, email, password, raises) ==
    /\ pc[c] = Idle
    /\ LET opened == open_session(c)
       IN  IF InvalidRole(role)
           THEN /\ Finish(c, method, Redirect("signup", "index", "danger", "Invalid role."),
                          opened, opened)
                /\ UNCHANGED pc
           ELSE IF method = "GET"
           THEN /\ Finish(c, method, Render("signup", "signup.html", "", ""), opened, opened)
                /\ UNCHANGED pc
           ELSE IF Falsy(name) \/ Falsy(email) \/ Falsy(password)
           THEN /\ Finish(c, method,
                          Render("signup", "signup.html", "warning", "All fields required."),
                          opened, opened)
                /\ UNCHANGED pc
           ELSE IF raises
           THEN /\ FinishError(c, method, "signup", opened)
                /\ UNCHANGED pc
           ELSE IF UserExists(email)
           THEN /\ Finish(c, method,
                          Render("signup", "signup.html", "danger", "User exists."),
                          opened, opened)
                /\ UNCHANGED pc
           ELSE /\ nextId + Cardinality(Pending) <= MaxUsers
                /\ pc' = [pc EXCEPT ![c] = [op |-> "signup", role |-> role, name |-> name,
                                            email |-> email, password |-> password]]
                /\ UNCHANGED <<resp, cookie>>
    /\ UNCHANGED <<dynamodb, local_db, table, nextId>>

\* the session after a signup that wrote the record u: lines 147-153 assign
\* nothing to the session
signup_session_login(s, u) ==
    [user |-> u.email, user_id |-> u.user_id, name |-> u.name,
     role |-> u.role, permanent |-> TRUE]
signup_session(s, u) == s

\* signup from the new record to the response (lines 137-153); raises:
\* put_item raises
SignupInsert(c, raises) ==
    /\ pc[c] # Idle
    /\ pc' = [pc EXCEPT ![c] = Idle]
    /\ LET opened == open_session(c)
           form == pc[c]
       IN  IF raises
           THEN /\ FinishError(c, "POST", "signup", opened)
                /\ UNCHANGED <<local_db, table, nextId>>
           ELSE /\ \E salt \in Salts :
                     LET rec == user_data(nextId, form.name, form.email, form.password,
                                          salt, form.role)
                     IN  /\ IF dynamodb
                            THEN /\ table' = put_item(table, rec)
                                 /\ UNCHANGED local_db
                            ELSE /\ local_db' = DictPut(local_db, form.email, rec)
                                 /\ UNCHANGED table
                         /\ Finish(c, "POST",
                                   Redirect("signup", LoginEndpoint(form.role), "success",
                                            "Signup successful. Please log in."),
                                   opened, signup_session(opened, rec))
                /\ nextId' = nextId + 1
    /\ UNCHANGED dynamodb

\* ----------------------------------------------------------------- login
\* the lookup of lines 167-175 finds a record: user_data is not None.  A
\* get_item that raises is caught and leaves user_data None.
Found_uncaught(email, raises) == email \in DOMAIN Users
Found(email, raises) == ~raises /\ email \in DOMAIN Users

\* the session login writes (lines 185-189)
login_session_noname(s, u) ==
    [user |-> u.email, user_id |-> u.user_id, name |-> u.email,
     role |-> u.role, permanent |-> TRUE]
login_session_keep(s, u) ==
    IF "user" \in DOMAIN s
    THEN s
    ELSE [user |-> u.email, user_id |-> u.user_id, name |-> u.name,
          role |-> u.role, permanent |-> TRUE]
login_session(s, u) ==
    [k \in DOMAIN s \cup {"user", "user_id", "name", "role", "permanent"} |->
        CASE k = "user" -> u.email
          [] k = "user_id" -> u.user_id
          [] k = "name" -> u.name
          [] k = "role" -> u.role
          [] k = "permanent" -> TRUE
          [] OTHER -> s[k]]

\* the role check of line 181
RoleMismatch_never(u, role) == FALSE
RoleMismatch(u, role) == u.role # role

Login(c, method, role, email, password, raises) ==
    /\ pc[c] = Idle
    /\ LET opened == open_session(c)
           u == Users[email]
       IN  IF InvalidRole(role)
           THEN Finish(c, method, Redirect("login", "index", "danger", "Invalid role."),
                       opened, opened)
           ELSE IF method = "GET"
           THEN Finish(c, method, Render("login", "login.html", "", ""), opened, opened)
           ELSE IF ~Found(email, raises)
           THEN Finish(c, method,
                       IF raises
                       THEN Logged(Render("login", "login.html", "danger",
                                          "Invalid credentials."),
                                   "DynamoDB error")
                       ELSE Render("login", "login.html", "danger",
                                   "Invalid credentials."),
                       opened, opened)
           ELSE IF password = None
           THEN \* check_password_hash(pwhash, None) raises
                FinishError(c, method, "login", opened)
           ELSE IF ~check_password_hash(u.password_hash, password)
           THEN Finish(c, method,
                       Render("login", "login.html", "danger", "Invalid credentials."),
                       opened, opened)
           ELSE IF RoleMismatch(u, role)
           THEN Finish(c, method,
                       Render("login", "login.html", "danger", "Role mismatch."),
                       opened, opened)
           ELSE Finish(c, method,
                       Redirect("login", DashboardEndpoint(role), "success",
                                "Login successful."),
                       opened, login_session(opened, u))
    /\ UNCHANGED <<dynamodb, local_db, table, pc, nextId>>

\* ------------------------------------------------------------- auth gate
\* login_required(role, api) applied to the session s of a request: either
\* the wrapped function is invoked, or the request ends in `out`.
Invoke == [invoke |-> TRUE, out |-> Response("none", 0, "", "", "")]
Deny(out) == [invoke |-> FALSE, out |-> out]

login_required_norole(op, s, role, api) ==
    IF "user" \notin DOMAIN s
    THEN Deny(Redirect(op, "index", "warning", "Please log in."))
    ELSE Invoke
login_required_api(op, s, role, api) ==
    IF "user" \notin DOMAIN s
    THEN Deny(JsonError(op, 401, "Authentication required"))
    ELSE Invoke
login_required_open(op, s, role, api) == Invoke
login_required(op, s, role, api) ==
    IF "user" \notin DOMAIN s
    THEN IF api
         THEN Deny(JsonError(op, 401, "Authentication required"))
         ELSE Deny(Redirect(op, "index", "warning", "Please log in."))
    ELSE IF ~Falsy(role) /\ SessionRole(s) # role
    THEN IF api
         THEN Deny(JsonError(op, 403, "Unauthorized"))
         ELSE Deny(Redirect(op, "index", "danger", "Access denied."))
    ELSE Invoke

\* ---------------------------------------------- logout and the dashboards
\* session.clear()
session_clear_keep(s) == s
session_clear(s) == EmptyDict

Logout(c) ==
    /\ pc[c] = Idle
    /\ LET opened == open_session(c)
           gate == login_required("logout", opened, None, FALSE)
       IN  IF gate.invoke
           THEN Finish(c, "GET",
                       Redirect("logout", "index", "success", "Logged out successfully."),
                       opened, session_clear(opened))
           ELSE Finish(c, "GET", gate.out, opened, opened)
    /\ UNCHANGED <<dynamodb, local_db, table, pc, nextId>>

PatientDashboard(c) ==
    /\ pc[c] = Idle
    /\ LET opened == open_session(c)
           gate == login_required("patient_dashboard", opened, patient, FALSE)
       IN  IF gate.invoke
           THEN Finish(c, "GET",
                       Render("patient_dashboard", "patient_dashboard.html", "", ""),
                       opened, opened)
           ELSE Finish(c, "GET", gate.out, opened, opened)
    /\ UNCHANGED <<dynamodb, local_db, table, pc, nextId>>

DoctorDashboard(c) ==
    /\ pc[c] = Idle
    /\ LET opened == open_session(c)
           gate == login_required("doctor_dashboard", opened, doctor, FALSE)
       IN  IF gate.invoke
           THEN Finish(c, "GET",
                       Render("doctor_dashboard", "doctor_dashboard.html", "", ""),
                       opened, opened)
           ELSE Finish(c, "GET", gate.out, opened, opened)
    /\ UNCHANGED <<dynamodb, local_db, table, pc, nextId>>

\* the landing page
Index(c) ==
    /\ pc[c] = Idle
    /\ LET opened == open_session(c)
       IN  Finish(c, "GET", Render("index", "index.html", "", ""), opened, opened)
    /\ UNCHANGED <<dynamodb, local_db, table, pc, nextId>>

\* ------------------------------------------------------------ environment
\* An hour passes: every signature is an hour older.  A request takes far
\* less than that, so the clock ticks between requests.
Older(k) ==
    IF k.data = EmptyDict \/ k.age > PERMANENT_SESSION_LIFETIME
    THEN k
    ELSE [k EXCEPT !.age = k.age + 1]

Tick ==
    /\ Pending = {}
    /\ cookie' = [c \in Clients |-> Older(cookie[c])]
    /\ UNCHANGED <<dynamodb, local_db, table, resp, pc, nextId>>

Next ==
    \/ \E c \in Clients, r \in SignupRequests, raises \in StoreOutcomes :
          /\ c \notin Browsers => r \in SignupWrites
          /\ raises => r \in SignupWrites
          /\ SignupRequest(c, r.method, r.role, r.form.name, r.form.email,
                           r.form.password, raises)
          /\ UNCHANGED <<twin, mail>>
    \/ \E c \in Clients, raises \in StoreOutcomes :
          SignupInsert(c, raises) /\ UNCHANGED <<twin, mail>>
    \/ \E c \in Browsers, r \in LoginRequests, raises \in StoreOutcomes :
          /\ raises => r.method = "POST" /\ r.role \in {patient, doctor}
          /\ Login(c, r.method, r.role, r.form.email, r.form.password, raises)
          /\ UNCHANGED <<twin, mail>>
    \/ \E c \in Browsers : Logout(c) /\ UNCHANGED <<twin, mail>>
    \/ \E c \in Browsers : PatientDashboard(c) /\ UNCHANGED <<twin, mail>>
    \/ \E c \in Browsers : DoctorDashboard(c) /\ UNCHANGED <<twin, mail>>
    \/ \E c \in Browsers : Index(c) /\ UNCHANGED <<twin, mail>>
    \/ Tick /\ UNCHANGED <<twin, mail>>

Spec == Init /\ [][Next]_vars

\* --------------------------------------------- the auth gate on its own
\* login_required(role, api) around any function, applied to a request that
\* arrives with any session: no session, a session login wrote, or a
\* session with no role in it, of any age.
ValidRoles == {patient, doctor}
GateRoles == {None, patient, doctor}
SessionSamples ==
    [user : Emails, user_id : 1..MaxUsers, name : Names, role : ValidRoles,
     permanent : {TRUE}]
    \cup {[user |-> e] : e \in Emails}
CookieSamples ==
    {NoCookie}
    \cup {[data |-> d, age |-> a] :
            d \in SessionSamples, a \in 0..(PERMANENT_SESSION_LIFETIME + 1)}

GateInit ==
    /\ dynamodb = FALSE
    /\ local_db = EmptyDict
    /\ table = EmptyDict
    /\ \E k \in CookieSamples :
         cookie = [c \in Clients |-> IF c \in Browsers THEN k ELSE NoCookie]
    /\ resp = NoResponse
    /\ pc = [c \in Clients |-> Idle]
    /\ nextId = 1
    /\ twin = NoTwin
    /\ mail = NoMail

\* decorated_function (lines 68-80) around a function that renders a page
Gated(c, role, api) ==
    /\ pc[c] = Idle
    /\ LET opened == open_session(c)
           gate == login_required("gated", opened, role, api)
       IN  IF gate.invoke
           THEN Finish(c, "GET", Render("gated", "gated.html", "", ""), opened, opened)
           ELSE Finish(c, "GET", gate.out, opened, opened)
    /\ UNCHANGED <<dynamodb, local_db, table, pc, nextId>>

GateNext ==
    \/ \E c \in Browsers, role \in GateRoles, api \in BOOLEAN :
          Gated(c, role, api) /\ UNCHANGED <<twin, mail>>
    \/ Tick /\ UNCHANGED <<twin, mail>>

GateSpec == GateInit /\ [][GateNext]_vars

\* ------------------------------------------- the two backends side by side
\* Two processes serve the same sequence of signup and login requests, one
\* configured with the DynamoDB table (dynamodb set, the store in table) and
\* one with the in-memory dict (the store in local_db), the table answering
\* every call.  The process whose turn it is has its cookies, last
\* response, signup threads and identifier count in the variables, the other
\* has them in twin.  A round: the remote process handles a request, the
\* two change places, the local process handles the same request, and they
\* change places again.
NoReq == [kind |-> "none"]
TwinRequests ==
    {[kind |-> "signup", c |-> c, method |-> r.method, role |-> r.role,
      form |-> r.form] :
        c \in Browsers, r \in SignupRequests}
    \cup {[kind |-> "signup", c |-> c, method |-> r.method, role |-> r.role,
           form |-> r.form] :
             c \in Clients \ Browsers, r \in SignupWrites}
    \cup {[kind |-> "insert", c |-> c, method |-> "POST", role |-> patient,
           form |-> NoForm] : c \in Clients}
    \cup {[kind |-> "login", c |-> c, method |-> r.method, role |-> r.role,
           form |-> r.form] :
             c \in Browsers, r \in LoginRequests}

\* the step of the request q in the process whose turn it is
TwinAct(q) ==
    \/ /\ q.kind = "signup"
       /\ SignupRequest(q.c, q.method, q.role, q.form.name, q.form.email,
                        q.form.password, FALSE)
    \/ /\ q.kind = "insert"
       /\ SignupInsert(q.c, FALSE)
    \/ /\ q.kind = "login"
       /\ Login(q.c, q.method, q.role, q.form.email, q.form.password, FALSE)

\* Both processes run under the same server: the debug server of
\* app.run(debug=True), which sends no cookie with an unhandled error, or a
\* production server, which does.
ErrorMode(q) ==
    (q.kind = "login" /\ resp'.out.status = 500) =>
        cookie'[q.c] = IF twin.debug
                       THEN cookie[q.c]
                       ELSE save_session(q.c, open_session(q.c), open_session(q.c))

TwinInit ==
    /\ dynamodb = TRUE
    /\ local_db = EmptyDict
    /\ table = EmptyDict
    /\ cookie = [c \in Clients |-> NoCookie]
    /\ resp = NoResponse
    /\ pc = [c \in Clients |-> Idle]
    /\ nextId = 1
    /\ \E debug \in BOOLEAN :
         twin = [phase |-> "remote", debug |-> debug, req |-> NoReq,
                 cookie |-> [c \in Clients |-> NoCookie], resp |-> NoResponse,
                 pc |-> [c \in Clients |-> Idle], nextId |-> 1]
    /\ mail = NoMail

TwinRemote ==
    /\ twin.phase = "remote"
    /\ dynamodb
    /\ \E q \in TwinRequests :
         /\ TwinAct(q)
         /\ ErrorMode(q)
         /\ twin' = [twin EXCEPT !.phase = "swap", !.req = q]
    /\ UNCHANGED mail

TwinSwap ==
    /\ twin.phase \in {"swap", "back"}
    /\ dynamodb' = ~dynamodb
    /\ cookie' = twin.cookie
    /\ resp' = twin.resp
    /\ pc' = twin.pc
    /\ nextId' = twin.nextId
    /\ twin' = [twin EXCEPT !.phase = IF twin.phase = "swap" THEN "local" ELSE "remote",
                            !.req = IF twin.phase = "swap" THEN twin.req ELSE NoReq,
                            !.cookie = cookie, !.resp = resp, !.pc = pc,
                            !.nextId = nextId]
    /\ UNCHANGED <<local_db, table, mail>>

TwinLocal ==
    /\ twin.phase = "local"
    /\ ~dynamodb
    /\ TwinAct(twin.req)
    /\ ErrorMode(twin.req)
    /\ twin' = [twin EXCEPT !.phase = "back"]
    /\ UNCHANGED mail

TwinNext == TwinRemote \/ TwinSwap \/ TwinLocal

TwinSpec == TwinInit /\ [][TwinNext]_vars

\* ------------------------------------------------ the email utility
\* send_email_notification (lines 85-106) on its own: no route calls it.  An
\* activation walks through the statements of the function; whether a call
\* to the mail relay succeeds is the environment's choice at every call.
\* The relay is any SMTP server: a call raises with the connection still
\* open (the relay answers with an error: no STARTTLS, credentials refused,
\* recipient refused) or raises after smtplib closed the socket (the relay
\* went away, the call timed out).
MaxCalls == 3
Recipients == Emails
Subjects == {<< "Welcome" >>}
\* a text, or None: MIMEText(None, 'plain') raises AttributeError
Bodies == {<< "Hello" >>, None}
ConnectFaults == {"ok", "raise"}
StepFaults == {"ok", "raise", "drop"}
\* quit sends QUIT and closes the socket; it raises only when the socket is
\* gone, and smtplib has closed it by then
QuitFaults == {"ok", "drop"}

\* the rest of the state while send_email_notification acts
MailFrame == <<dynamodb, local_db, table, cookie, resp, pc, nextId, twin>>

MailInit ==
    /\ dynamodb = FALSE
    /\ local_db = EmptyDict
    /\ table = EmptyDict
    /\ cookie = [c \in Clients |-> NoCookie]
    /\ resp = NoResponse
    /\ pc = [c \in Clients |-> Idle]
    /\ nextId = 1
    /\ twin = NoTwin
    /\ \E ENABLE_EMAIL \in BOOLEAN :
         mail = [pc |-> "idle", enabled |-> ENABLE_EMAIL, calls |-> 0,
                 to |-> None, subject |-> None, body |-> None,
                 done |-> {}, contacted |-> FALSE, server |-> "none",
                 unclosed |-> 0, delivered |-> 0, result |-> FALSE,
                 log |-> ""]

\* line 86: if not ENABLE_EMAIL
Simulated_never == FALSE
Simulated == ~mail.enabled

\* The function returns and its frame is dropped.  Nothing refers to the
\* local server any more: if its connection is still open, the socket is
\* closed when the interpreter finalizes the object, at once where objects
\* are reference-counted and at some later collection elsewhere.
Release(server, collected) ==
    IF server = "open" /\ collected THEN "closed" ELSE server

Return(m, value, message) ==
    \E collected \in BOOLEAN :
        mail' = [m EXCEPT !.pc = "returned", !.result = value,
                          !.log = message,
                          !.server = Release(m.server, collected)]

\* lines 85-88: the call, and the whole of it when delivery is disabled
send_email_notification(to_email, subject, body) ==
    /\ mail.pc \in {"idle", "returned"}
    /\ mail.calls < MaxCalls
    /\ LET m == [mail EXCEPT !.calls = @ + 1, !.to = to_email,
                             !.subject = subject, !.body = body,
                             !.done = {}, !.contacted = FALSE,
                             !.server = "none",
                             !.unclosed = IF mail.server = "open"
                                          THEN @ + 1 ELSE @]
       IN  IF Simulated
           THEN Return(m, TRUE, "Simulated email")
           ELSE mail' = [m EXCEPT !.pc = "build"]
    /\ UNCHANGED MailFrame

\* a statement of the try block: on success the next statement, on an
\* exception the except clause
Step(name, fault, next) ==
    mail' = [mail EXCEPT
               !.pc = IF fault = "ok" THEN next ELSE "except",
               !.done = IF fault = "ok" THEN @ \cup {name} ELSE @,
               !.server = IF fault = "drop" THEN "closed" ELSE @]

\* lines 90-94: the message
MIMEMultipart ==
    /\ mail.pc = "build"
    /\ Step("build", IF mail.body = None THEN "raise" ELSE "ok", "connect")
    /\ UNCHANGED MailFrame

\* line 96: server = smtplib.SMTP(SMTP_SERVER, SMTP_PORT); a failed
\* connect leaves no connection
SMTP(fault) ==
    /\ mail.pc = "connect"
    /\ mail' = [mail EXCEPT
                  !.pc = IF fault = "ok" THEN "starttls" ELSE "except",
                  !.done = IF fault = "ok" THEN @ \cup {"connect"} ELSE @,
                  !.contacted = TRUE,
                  !.server = IF fault = "ok" THEN "open" ELSE "none"]
    /\ UNCHANGED MailFrame

\* line 97
starttls(fault) ==
    /\ mail.pc = "starttls"
    /\ Step("starttls", fault, "login")
    /\ UNCHANGED MailFrame

\* line 98: server.login(SENDER_EMAIL, SENDER_PASSWORD)
server_login(fault) ==
    /\ mail.pc = "login"
    /\ Step("login", fault, "send")
    /\ UNCHANGED MailFrame

\* line 99
send_message(fault) ==
    /\ mail.pc = "send"
    /\ mail' = [mail EXCEPT
                  !.pc = IF fault = "ok" THEN "quit" ELSE "except",
                  !.done = IF fault = "ok" THEN @ \cup {"send"} ELSE @,
                  !.server = IF fault = "drop" THEN "closed" ELSE @,
                  !.delivered = IF fault = "ok" THEN @ + 1 ELSE @]
    /\ UNCHANGED MailFrame

\* line 100
quit(fault) ==
    /\ mail.pc = "quit"
    /\ mail' = [mail EXCEPT
                  !.pc = IF fault = "ok" THEN "sent" ELSE "except",
                  !.done = IF fault = "ok" THEN @ \cup {"quit"} ELSE @,
                  !.server = "closed"]
    /\ UNCHANGED MailFrame

\* lines 102-103
ReturnTrue ==
    /\ mail.pc = "sent"
    /\ Return(mail, TRUE, "Email sent")
    /\ UNCHANGED MailFrame

\* lines 104-106: except Exception as e
ReturnFalse ==
    /\ mail.pc = "except"
    /\ Return(mail, FALSE, "Email failed")
    /\ UNCHANGED MailFrame

\* The interpreter finalizes an unreferenced SMTP object whose connection is
\* still open: the one of the activation that returned last, or an older
\* one.
Collect ==
    /\ \/ /\ mail.pc = "returned"
          /\ mail.server = "open"
          /\ mail' = [mail EXCEPT !.server = "closed"]
       \/ /\ mail.pc # "off"
          /\ mail.unclosed > 0
          /\ mail' = [mail EXCEPT !.unclosed = @ - 1]
    /\ UNCHANGED MailFrame

MailNext ==
    \/ \E to_email \in Recipients, subject \in Subjects, body \in Bodies :
          send_email_notification(to_email, subject, body)
    \/ MIMEMultipart
    \/ \E fault \in ConnectFaults : SMTP(fault)
    \/ \E fault \in StepFaults : starttls(fault)
    \/ \E fault \in StepFaults : server_login(fault)
    \/ \E fault \in StepFaults : send_message(fault)
    \/ \E fault \in QuitFaults : quit(fault)
    \/ ReturnTrue
    \/ ReturnFalse
    \/ Collect

MailSpec == MailInit /\ [][MailNext]_vars

\* ------------------------------------------------------------ properties

\* password is the password the record u was registered with
RegisteredWith(u, password) ==
    \E salt \in Salts : u.password_hash = generate_password_hash(password, salt)

\* the client's cookie carries an identity
LoggedIn(c) == "user" \in DOMAIN cookie[c].data

\* What every step of a request of client c to a route does: it answers c
\* from that route or, in signup, moves c's thread.  (Stated first in the
\* formulas below, it spares evaluating the route's action on other steps.)
SignupStep(c) == pc'[c] # pc[c] \/ (resp'.client = c /\ resp'.out.op = "signup")
RouteStep(c, op) == resp'.client = c /\ resp'.out.op = op

\* C1: a signup POST with a valid role, a complete form and an email the
\* store does not hold passes the existence check, and its write leaves the
\* store with exactly one new record under that email: the path role,
\* is_active true, a password_hash that is not the plaintext and verifies
\* against it, every other record as it was; the response redirects to the
\* role's login page.  (When the store answers its calls; C14 is about a store that fails.)
C1_SignupCreatesRecord ==
    [][\A c \in Clients : SignupStep(c) =>
         /\ \A role \in ValidRoles, f \in CompleteForms :
              ( /\ f.email \notin DOMAIN Users
                /\ SignupRequest(c, "POST", role, f.name, f.email, f.password, FALSE) )
              => /\ pc'[c] = [op |-> "signup", role |-> role, name |-> f.name,
                              email |-> f.email, password |-> f.password]
                 /\ UNCHANGED <<local_db, table>>
         /\ SignupInsert(c, FALSE)
              => LET f == pc[c]
                     u == Users'[f.email]
                 IN  /\ DOMAIN Users' = DOMAIN Users \cup {f.email}
                     /\ u.email = f.email
                     /\ u.name = f.name
                     /\ u.role = f.role
                     /\ u.is_active = TRUE
                     /\ u.password_hash # f.password
                     /\ check_password_hash(u.password_hash, f.password)
                     /\ \A e \in DOMAIN Users \ {f.email} : Users'[e] = Users[e]
                     /\ \A e \in DOMAIN Users : Users[e].user_id # u.user_id
                     /\ resp' = [client |-> c,
                                 out |-> Redirect("signup", LoginEndpoint(f.role), "success",
                                                  "Signup successful. Please log in.")]
      ]_vars

\* a signup has succeeded and its record is in the store
C1_Witness ==
    /\ resp.out.flash = "Signup successful. Please log in."
    /\ \E e \in DOMAIN Users :
         /\ Users[e].role \in ValidRoles
         /\ \E p \in Passwords : check_password_hash(Users[e].password_hash, p)

\* C2: a signup POST whose email the store already holds ends in the
\* conflict outcome (the form again, with 'User exists.'), under either
\* backend, and writes nothing: the record and every other one stay as they
\* were and no write follows.  (When the store answers the lookup.)
C2_SignupConflict ==
    [][\A c \in Clients : SignupStep(c) =>
         \A role \in ValidRoles, f \in CompleteForms :
         ( /\ f.email \in DOMAIN Users
           /\ SignupRequest(c, "POST", role, f.name, f.email, f.password, FALSE) )
         => /\ resp' = [client |-> c,
                        out |-> Render("signup", "signup.html", "danger", "User exists.")]
            /\ UNCHANGED <<local_db, table, nextId>>
            /\ pc'[c] = Idle
      ]_vars

\* a signup has ended in the conflict outcome and the record is still there
C2_Witness ==
    /\ resp.out.flash = "User exists."
    /\ DOMAIN Users # {}

\* C3: a login POST on the login path of the record's role, with the
\* record's email and the password it was registered with, sets the session
\* to exactly the record's email, user_id, name and role, marks it
\* permanent, and redirects to the role's dashboard.  (When the store
\* answers the lookup; C20 is about a lookup that fails.)
C3_LoginStartsSession ==
    [][\A c \in Browsers : RouteStep(c, "login") =>
         \A role \in ValidRoles, e \in Emails, p \in Passwords :
         ( /\ e \in DOMAIN Users
           /\ Users[e].role = role
           /\ RegisteredWith(Users[e], p)
           /\ Login(c, "POST", role, e, p, FALSE) )
         => /\ cookie'[c].data = [user |-> e, user_id |-> Users[e].user_id,
                                  name |-> Users[e].name, role |-> role,
                                  permanent |-> TRUE]
            /\ resp' = [client |-> c,
                        out |-> Redirect("login", DashboardEndpoint(role), "success",
                                         "Login successful.")]
      ]_vars

\* a login has succeeded and the client holds the session
C3_Witness ==
    /\ resp.out.flash = "Login successful."
    /\ LoggedIn(resp.client)
    /\ cookie[resp.client].data.user \in DOMAIN Users

\* the password verifies against the stored hash (a missing password, for
\* which check_password_hash raises, does not)
Verifies(pwhash, password) ==
    password # None /\ check_password_hash(pwhash, password)

InvalidCredentials == Render("login", "login.html", "danger", "Invalid credentials.")

\* what the client is sent of a request's outcome: all but the log line
Shown(out) == Response(out.op, out.status, out.target, out.category, out.flash)

\* C4: a login POST whose email is not registered, or whose password does
\* not verify against the stored hash, ends in the invalid-credentials
\* outcome, leaves the session as the request found it and leaves the store
\* unchanged.
C4_LoginRejects ==
    [][\A c \in Browsers : RouteStep(c, "login") =>
         \A role \in ValidRoles, f \in LoginForms, raises \in StoreOutcomes :
         ( /\ f.email \notin DOMAIN Users
              \/ ~Verifies(Users[f.email].password_hash, f.password)
           /\ Login(c, "POST", role, f.email, f.password, raises) )
         => /\ resp'.client = c
            /\ Shown(resp'.out) = InvalidCredentials
            /\ open_session(c)' = open_session(c)
            /\ UNCHANGED <<local_db, table>>
      ]_vars

\* C5: a login POST on the other role's login path, with a record's email
\* and the password it was registered with, ends in the role-mismatch
\* outcome and leaves the session as the request found it; and whenever a
\* login changes the session, the record's role is the role of the path.
\* (When the store answers the lookup.)
C5_RoleMismatchRejected ==
    [][\A c \in Browsers : RouteStep(c, "login") =>
         /\ \A role \in ValidRoles, f \in LoginForms :
              ( /\ f.email \in DOMAIN Users
                /\ Users[f.email].role # role
                /\ RegisteredWith(Users[f.email], f.password)
                /\ Login(c, "POST", role, f.email, f.password, FALSE) )
              => /\ resp' = [client |-> c,
                             out |-> Render("login", "login.html", "danger", "Role mismatch.")]
                 /\ open_session(c)' = open_session(c)
         /\ open_session(c)' # open_session(c) =>
              \A role \in ValidRoles, f \in LoginForms, raises \in StoreOutcomes :
                Login(c, "POST", role, f.email, f.password, raises)
                => /\ f.email \in DOMAIN Users
                   /\ Users[f.email].role = role
                   /\ cookie'[c].data.role = role
      ]_vars

\* a login has ended in the role-mismatch outcome
C5_Witness ==
    /\ resp.out.flash = "Role mismatch."
    /\ \E e \in DOMAIN Users : Users[e].role \in ValidRoles

\* C6: the gate decides from whether the session holds a user, the
\* session's role, the required role and the response mode alone: no user,
\* Unauthenticated (401 in machine mode, a redirect to the landing page
\* otherwise); a user and a required role that is not the session's,
\* Forbidden (403, or a redirect to the landing page); otherwise, and only
\* then, the wrapped function runs.  The session reads the same after the
\* gate as before it.
C6_GateDecision ==
    [][\A c \in Browsers, role \in GateRoles, api \in BOOLEAN :
         Gated(c, role, api) =>
           LET s == open_session(c)
               present == "user" \in DOMAIN s
               mismatch == role # None /\ SessionRole(s) # role
           IN  /\ resp'.client = c
               /\ ~present =>
                    resp'.out = IF api
                                THEN JsonError("gated", 401, "Authentication required")
                                ELSE Redirect("gated", "index", "warning", "Please log in.")
               /\ present /\ mismatch =>
                    resp'.out = IF api
                                THEN JsonError("gated", 403, "Unauthorized")
                                ELSE Redirect("gated", "index", "danger", "Access denied.")
               /\ present /\ ~mismatch =>
                    resp'.out = Render("gated", "gated.html", "", "")
               /\ open_session(c)' = s
      ]_vars

\* the gate has refused a session of the other role in machine mode
C6_Witness ==
    /\ resp.out.status = 403
    /\ LoggedIn(resp.client)

\* the step is a login of client c that succeeded
LoginSucceeds(c) ==
    /\ RouteStep(c, "login")
    /\ resp'.out.flash = "Login successful."
    /\ \E r \in LoginRequests :
         Login(c, r.method, r.role, r.form.email, r.form.password, FALSE)

\* the gate's answer to a request without a session
PleaseLogIn(op) == Redirect(op, "index", "warning", "Please log in.")

\* C7: whatever requests came before, the patient dashboard is rendered
\* only for a request whose session holds a user with role patient, the
\* doctor dashboard only for one with role doctor; a request with no
\* session or a session of the other role is sent to the landing page, and
\* no other route renders a dashboard.
C7_DashboardsByRole ==
    [][\A c \in Browsers :
         LET s == open_session(c)
             holds(role) == "user" \in DOMAIN s /\ SessionRole(s) = role
         IN  /\ PatientDashboard(c) =>
                  /\ resp'.client = c
                  /\ holds(patient) <=> resp'.out.target = "patient_dashboard.html"
                  /\ ~holds(patient) => /\ resp'.out.status = 302
                                        /\ resp'.out.target = "index"
             /\ DoctorDashboard(c) =>
                  /\ resp'.client = c
                  /\ holds(doctor) <=> resp'.out.target = "doctor_dashboard.html"
                  /\ ~holds(doctor) => /\ resp'.out.status = 302
                                       /\ resp'.out.target = "index"
             /\ ( /\ resp' # resp
                  /\ resp'.client = c
                  /\ resp'.out.target \in {"patient_dashboard.html", "doctor_dashboard.html"} )
                => \/ PatientDashboard(c) /\ holds(patient)
                   \/ DoctorDashboard(c) /\ holds(doctor)
      ]_vars

\* the doctor dashboard has been rendered for a doctor's session
C7_Witness ==
    /\ resp.out.target = "doctor_dashboard.html"
    /\ LoggedIn(resp.client)
    /\ SessionRole(cookie[resp.client].data) = doctor

\* C8: a logout by a client that holds a session leaves the client without
\* one at once (the next read is absent); a client without a session gets
\* one only by a login of its own that succeeds; and while it has none,
\* both dashboards and logout are denied.
C8_LogoutInvalidates ==
    [][\A c \in Browsers :
         /\ ("user" \in DOMAIN open_session(c) /\ Logout(c)) =>
              /\ cookie'[c] = NoCookie
              /\ open_session(c)' = EmptyDict
              /\ resp' = [client |-> c,
                          out |-> Redirect("logout", "index", "success",
                                           "Logged out successfully.")]
         /\ "user" \notin DOMAIN open_session(c) =>
              /\ "user" \in DOMAIN open_session(c)' => LoginSucceeds(c)
              /\ PatientDashboard(c) => resp'.out = PleaseLogIn("patient_dashboard")
              /\ DoctorDashboard(c) => resp'.out = PleaseLogIn("doctor_dashboard")
              /\ Logout(c) => resp'.out = PleaseLogIn("logout")
      ]_vars

\* a client that was logged in has logged out and holds no session
C8_Witness ==
    /\ resp.out.flash = "Logged out successfully."
    /\ cookie[resp.client] = NoCookie
    /\ DOMAIN Users # {}

\* C9: a logout leaves the client without a session, so a second logout
\* right after it finds none; a logout that finds no session changes
\* nothing (the client's cookie and the store stay as they were), raises no
\* error and still ends in a redirect to the landing page.
C9_LogoutTwice ==
    [][\A c \in Browsers : Logout(c) =>
         /\ "user" \notin DOMAIN open_session(c)'
         /\ resp'.client = c
         /\ resp'.out.status = 302
         /\ resp'.out.target = "index"
         /\ UNCHANGED <<local_db, table, nextId, pc>>
         /\ "user" \notin DOMAIN open_session(c) =>
              /\ cookie' = cookie
              /\ resp'.out = PleaseLogIn("logout")
      ]_vars

\* a logout has found no session, with users registered
C9_Witness ==
    /\ resp.out = PleaseLogIn("logout")
    /\ ~LoggedIn(resp.client)
    /\ DOMAIN Users # {}

IdentityKeys == {"user", "user_id", "name", "role"}
Identity(s) == [k \in IdentityKeys \cap DOMAIN s |-> s[k]]
IdentityOf(u) ==
    [user |-> u.email, user_id |-> u.user_id, name |-> u.name, role |-> u.role]

\* C11: a login that succeeds starts the session with the identity of the
\* record it found; from then on every request of the client reads that
\* identity back unchanged, whatever requests this or another client makes
\* (dashboards, denied requests, failed logins, signups), until the client
\* logs out, logs in again, or the session expires; and a session ends in
\* no other way.
C11_SessionRoundTrip ==
    [][\A c \in Browsers :
         LET s == open_session(c)
         IN  /\ ( /\ "user" \in DOMAIN s
                  /\ "user" \in DOMAIN open_session(c)'
                  /\ ~LoginSucceeds(c) )
                => Identity(open_session(c)') = Identity(s)
             /\ ( /\ "user" \in DOMAIN s
                  /\ "user" \notin DOMAIN open_session(c)' )
                => \/ Logout(c)
                   \/ /\ cookie'[c] = Older(cookie[c])
                      /\ cookie'[c].age > PERMANENT_SESSION_LIFETIME
             /\ (RouteStep(c, "login") /\ resp'.out.flash = "Login successful.") =>
                  \A role \in ValidRoles, f \in LoginForms :
                    Login(c, "POST", role, f.email, f.password, FALSE)
                    => Identity(open_session(c)') = IdentityOf(Users[f.email])
      ]_vars

\* a login has failed for a client that holds a live session
C11_Witness ==
    /\ resp.out.flash = "Invalid credentials."
    /\ "user" \in DOMAIN open_session(resp.client)

\* C12: a login POST with an email that is not registered and a login POST
\* with a registered email and a password that does not verify end in the
\* same outcome: every step that answers the one also answers the other
\* (the same response, the same cookie), and that outcome is the
\* invalid-credentials page with the session as the request found it.
C12_UniformLoginError ==
    [][\A c \in Browsers : RouteStep(c, "login") =>
         \A role \in ValidRoles, f1 \in LoginForms, f2 \in LoginForms,
            raises \in StoreOutcomes :
           ( /\ f1.email \notin DOMAIN Users
             /\ f2.email \in DOMAIN Users
             /\ ~Verifies(Users[f2.email].password_hash, f2.password) )
           => /\ Login(c, "POST", role, f1.email, f1.password, raises)
                 <=> Login(c, "POST", role, f2.email, f2.password, raises)
              /\ Login(c, "POST", role, f2.email, f2.password, raises)
                 => /\ resp'.out.status = 200
                    /\ resp'.out.target = "login.html"
                    /\ resp'.out.flash = "Invalid credentials."
                    /\ open_session(c)' = open_session(c)
      ]_vars

\* C13: once the store holds a record for an email, every later state
\* holds a record for that email with the same user_id, email and role,
\* whatever requests are handled, concurrently or not.
C13_RecordImmutable ==
    [][\A e \in DOMAIN Users :
         /\ e \in DOMAIN Users'
         /\ Users'[e].user_id = Users[e].user_id
         /\ Users'[e].email = Users[e].email
         /\ Users'[e].role = Users[e].role
      ]_vars

\* C14: a signup whose store call fails (the existence check or the
\* insert) ends in a handled failure outcome, one that is neither an
\* unhandled server error nor the 'User exists.' conflict, and writes no
\* record.
C14_SignupStoreFailureHandled ==
    [][\A c \in Clients : SignupStep(c) =>
         /\ \A r \in SignupWrites :
              SignupRequest(c, r.method, r.role, r.form.name, r.form.email,
                            r.form.password, TRUE)
              => /\ resp'.client = c
                 /\ resp'.out.status # 500
                 /\ resp'.out.flash # "User exists."
                 /\ pc'[c] = Idle
                 /\ UNCHANGED <<local_db, table>>
         /\ SignupInsert(c, TRUE)
              => /\ resp'.client = c
                 /\ resp'.out.status # 500
                 /\ resp'.out.flash # "User exists."
                 /\ UNCHANGED <<local_db, table>>
      ]_vars

\* C15: a signup POST on a valid role path in which name, email or
\* password is missing or empty renders the form again with the warning
\* 'All fields required.' and creates no record, whole or partial: the
\* store after the request is the store before it, and no write follows.
C15_SignupMissingField ==
    [][\A c \in Clients : SignupStep(c) =>
         \A role \in ValidRoles, f \in IncompleteForms :
           SignupRequest(c, "POST", role, f.name, f.email, f.password, FALSE)
           => /\ resp'.client = c
              /\ resp'.out = Render("signup", "signup.html", "warning",
                                    "All fields required.")
              /\ pc'[c] = Idle
              /\ Users' = Users
              /\ UNCHANGED <<local_db, table, nextId>>
      ]_vars

\* an incomplete signup has been refused while the store holds a record
C15_Witness ==
    /\ resp.out.flash = "All fields required."
    /\ DOMAIN Users # {}

\* C16: on a role path other than 'patient' and 'doctor', signup and login
\* (GET or POST) redirect to the landing page with 'Invalid role.' and
\* leave the store, the pending writes and the session as they were; and so
\* every stored record and every session has role patient or doctor.
C16_InvalidRole ==
    [][\A c \in Clients :
         /\ SignupStep(c) =>
              \A r \in SignupRequests :
                ( /\ r.role \notin {patient, doctor}
                  /\ SignupRequest(c, r.method, r.role, r.form.name, r.form.email,
                                   r.form.password, FALSE) )
                => /\ resp' = [client |-> c,
                               out |-> Redirect("signup", "index", "danger",
                                                "Invalid role.")]
                   /\ open_session(c)' = open_session(c)
                   /\ UNCHANGED <<local_db, table, nextId, pc>>
         /\ RouteStep(c, "login") =>
              \A r \in LoginRequests :
                ( /\ r.role \notin {patient, doctor}
                  /\ Login(c, r.method, r.role, r.form.email, r.form.password, FALSE) )
                => /\ resp' = [client |-> c,
                               out |-> Redirect("login", "index", "danger",
                                                "Invalid role.")]
                   /\ open_session(c)' = open_session(c)
                   /\ UNCHANGED <<local_db, table, nextId, pc>>
         /\ \A e \in DOMAIN Users' : Users'[e].role \in {patient, doctor}
         /\ "user" \in DOMAIN cookie'[c].data =>
              cookie'[c].data.role \in {patient, doctor}
         /\ pc'[c] # Idle => pc'[c].role \in {patient, doctor}
      ]_vars

\* a request on an invalid role path has been turned away from a client
\* that holds a session
C16_Witness ==
    /\ resp.out.flash = "Invalid role."
    /\ LoggedIn(resp.client)
    /\ DOMAIN Users # {}

\* C17: no signup request logs the client in.  Whatever its outcome
\* (success, conflict, validation failure, invalid role, or the form on
\* GET), the session the client's next request reads carries the identity
\* it carried before: a client without a session has none after a signup
\* that succeeded.
C17_SignupKeepsSession ==
    [][\A c \in Clients : SignupStep(c) =>
         /\ ( \/ SignupInsert(c, FALSE)
              \/ \E r \in SignupRequests :
                   SignupRequest(c, r.method, r.role, r.form.name, r.form.email,
                                 r.form.password, FALSE) )
            => /\ Identity(open_session(c)') = Identity(open_session(c))
               /\ "user" \in DOMAIN open_session(c)' <=> "user" \in DOMAIN open_session(c)
         /\ ( /\ SignupInsert(c, FALSE)
              /\ "user" \notin DOMAIN open_session(c) )
            => /\ cookie'[c] = cookie[c]
               /\ resp'.out.flash = "Signup successful. Please log in."
      ]_vars

\* a browser without a session has signed up and still has none
C17_Witness ==
    /\ resp.out.flash = "Signup successful. Please log in."
    /\ resp.client \in Browsers
    /\ ~LoggedIn(resp.client)
    /\ \E e \in DOMAIN Users : Users[e].user_id = nextId - 1

\* C19: signup's existence check and its insert are two steps.  While one
\* signup for an email is between them, a second signup for that email
\* still passes the check; and an insert that finds the email already
\* written by the other reports success all the same and replaces that
\* record under the same email: a new user_id, and the role and password
\* of the later request.
C19_SignupRace ==
    [][\A c \in Clients : SignupStep(c) =>
         /\ \A r \in SignupWrites :
              ( /\ \E d \in Pending \ {c} : pc[d].email = r.form.email
                /\ r.form.email \notin DOMAIN Users
                /\ SignupRequest(c, r.method, r.role, r.form.name, r.form.email,
                                 r.form.password, FALSE) )
              => /\ pc'[c] # Idle
                 /\ pc'[c].email = r.form.email
         /\ ( /\ SignupInsert(c, FALSE)
              /\ pc[c].email \in DOMAIN Users )
            => LET e == pc[c].email
               IN  /\ resp' = [client |-> c,
                               out |-> Redirect("signup", LoginEndpoint(pc[c].role),
                                                "success",
                                                "Signup successful. Please log in.")]
                   /\ DOMAIN Users' = DOMAIN Users
                   /\ Users'[e].user_id # Users[e].user_id
                   /\ Users'[e].role = pc[c].role
                   /\ check_password_hash(Users'[e].password_hash, pc[c].password)
      ]_vars

\* two signups have succeeded and the store holds one record: the second
\* insert replaced the record of the first
C19_Witness ==
    /\ nextId = 3
    /\ Cardinality(DOMAIN Users) = 1
    /\ resp.out.flash = "Signup successful. Please log in."
    /\ \E e \in DOMAIN Users :
         /\ Users[e].user_id = 2
         /\ LoginEndpoint(Users[e].role) = resp.out.target

\* C20: a login whose lookup in the remote store raises catches the
\* exception and logs it, answers with a generic failure page (the
\* invalid-credentials page, not a server error), leaves the session, the
\* store and the pending signups as they were; and the process serves the
\* next requests as before: after such a failure a login with a record's
\* email and password on its role path, the store answering, succeeds.
C20_LoginStoreFailure ==
    [][\A c \in Browsers : RouteStep(c, "login") =>
         /\ dynamodb =>
              \A role \in ValidRoles, f \in LoginForms :
              Login(c, "POST", role, f.email, f.password, TRUE)
              => /\ resp'.client = c
                 /\ Shown(resp'.out) = InvalidCredentials
                 /\ "log" \in DOMAIN resp'.out
                 /\ resp'.out.log = "DynamoDB error"
                 /\ open_session(c)' = open_session(c)
                 /\ UNCHANGED <<dynamodb, local_db, table, pc, nextId>>
         /\ "log" \in DOMAIN resp.out =>
              \A role \in ValidRoles, e \in Emails, p \in Passwords :
                ( /\ e \in DOMAIN Users
                  /\ Users[e].role = role
                  /\ RegisteredWith(Users[e], p)
                  /\ Login(c, "POST", role, e, p, FALSE) )
                => /\ resp'.out = Redirect("login", DashboardEndpoint(role), "success",
                                           "Login successful.")
                   /\ Identity(open_session(c)') = IdentityOf(Users[e])
      ]_vars

\* a lookup has failed for a login while the store holds a record
C20_Witness ==
    /\ "log" \in DOMAIN resp.out
    /\ resp.out.flash = "Invalid credentials."
    /\ DOMAIN Users # {}

DeliverySteps == {"connect", "starttls", "login", "send"}
\* every statement of the try block that can raise
TrySteps == {"build"} \cup DeliverySteps \cup {"quit"}
\* the step that ends an activation of send_email_notification
NotifyReturns == mail.pc # "returned" /\ mail'.pc = "returned"

\* C21 (as stated): send_email_notification never raises to its caller; with
\* delivery disabled it contacts no relay and returns True; with delivery
\* enabled it returns True exactly when connect, starttls, login and send
\* all succeed, and False when one of them fails.
C21_NotifyResultOfFourSteps ==
    [][/\ (mail.pc = "except" /\ mail'.pc # "except") => mail'.pc = "returned"
       /\ NotifyReturns =>
            /\ ~mail'.enabled => ~mail'.contacted /\ mail'.result
            /\ mail'.enabled =>
                 (mail'.result <=> DeliverySteps \subseteq mail'.done)
      ]_vars

\* C21 (amended): send_email_notification never raises to its caller; with
\* delivery disabled it contacts no relay, logs the simulated email and
\* returns True; with delivery enabled it returns True exactly when every
\* statement of the try block succeeds: building the message, connect,
\* starttls, login, send and the closing quit.  It returns False when any
\* of them fails, a quit that fails after the message was sent included.
C21_NotifyResult ==
    [][/\ (mail.pc = "except" /\ mail'.pc # "except") => mail'.pc = "returned"
       /\ NotifyReturns =>
            /\ ~mail'.enabled =>
                 /\ ~mail'.contacted
                 /\ mail'.result
                 /\ mail'.log = "Simulated email"
                 /\ mail'.delivered = mail.delivered
            /\ mail'.enabled =>
                 /\ mail'.result <=> TrySteps \subseteq mail'.done
                 /\ ~mail'.result => mail'.log = "Email failed"
      ]_vars

\* delivery enabled: the relay accepted the message, quit failed, and the
\* call returned False
C21_Witness ==
    /\ mail.pc = "returned"
    /\ mail.enabled
    /\ ~mail.result
    /\ DeliverySteps \subseteq mail.done
    /\ mail.delivered > 0

\* C22: with delivery enabled, the connection an activation of
\* send_email_notification opened is closed when it has returned, on every
\* path: after a successful send, and when starttls, login or send failed
\* with the connection open.
C22_ConnectionClosedAtReturn ==
    (mail.pc = "returned" /\ mail.enabled) => mail.server # "open"

\* C23: every session that is present names an email that has a record in
\* the user store, and the session's user_id, name and role are that
\* record's, in every state signup, login, logout and the gated routes
\* reach from any clients, concurrent requests included.
C23_SessionStoreConsistent ==
    \A c \in Clients :
        "user" \in DOMAIN open_session(c) =>
            /\ open_session(c).user \in DOMAIN Users
            /\ Identity(open_session(c)) = IdentityOf(Users[open_session(c).user])

====
